---- MODULE Spec2Model ----
(***************************************************************************)
(* A model of ai-learn-map: the LearningMapFlow component (radial layout  *)
(* of a topic / branch / subtopic tree), the Index page that requests a   *)
(* learning map, and the generate-learning-map request handler.           *)
(*                                                                         *)
(* Conventions                                                             *)
(*  - An id is a sequence of string tokens, so that the template strings   *)
(*    `main-${branch.id}` and `${branch.id}-${subtopic.id}` are real       *)
(*    concatenations: "a-b" is <<"a", "-", "b">>.                          *)
(*  - Angles are integers in micro-radians, coordinates integers in        *)
(*    pixels; Math.cos / Math.sin are a fixed-point Taylor series.         *)
(*  - Display-only pass-through fields (name, description) are left out of *)
(*    trees and nodes; the badge, the node type and the edge styling that  *)
(*    the layout computes are kept.                                        *)
(*  - The learning level is left out: the page passes it to the function,  *)
(*    which copies it into the prompt, and nothing else reads it.          *)
(*  - The handler keeps nothing between requests, so a request is served   *)
(*    in one step, when its response is delivered.                         *)
(***************************************************************************)
EXTENDS Integers, Sequences, FiniteSets, TLC

VARIABLES
    variant,        \* which copy of LearningMapFlow is running
    learningMap,    \* Index state `learningMap`, the `data` prop of LearningMapFlow
    nodes,          \* LearningMapFlow state `nodes`
    edges,          \* LearningMapFlow state `edges`
    effectPending,  \* the layout effect is scheduled for the current `data`
    drags,          \* node moves by the user since the last layout run
    overwrote,      \* what the last layout run replaced: "none", "empty", "layout", "dragged"
    flowFailed,     \* the layout effect threw
    topic,          \* Index state `topic`
    loading,        \* Index state `loading`
    toast,          \* the toast shown last
    timers,         \* pending setTimeout callbacks, oldest first, with the values their closure captured
    requests,       \* calls of supabase.functions.invoke that have not returned, oldest first
    apiKey,         \* whether LOVABLE_API_KEY is configured
    step            \* what the last step did: the operation, the topic it was given, the
                    \* calls of invoke it made, and the function request it had served

flowVars == <<variant, nodes, edges, effectPending, drags, overwrote, flowFailed>>

pageVars == <<topic, loading, toast, timers, requests>>

vars == <<variant, learningMap, nodes, edges, effectPending, drags, overwrote, flowFailed,
          topic, loading, toast, timers, requests, apiKey, step>>

----------------------------------------------------------------------------
(* Bounds *)

\* Largest number of non-root nodes (branches plus subtopics) of an input tree.
MaxNodes == 3

\* Largest number of node moves between two layout runs.
MaxDrags == 1

----------------------------------------------------------------------------
(* Input trees *)

MainId == <<"main">>

\* Ids the upstream data may carry: nothing in the code restricts them, so the
\* reserved root id and ids containing '-' are among them.
Ids == { <<"main">>, <<"b">>, <<"a", "-", "b">>, <<"main", "-", "a">> }

Null == [kind |-> "null", topic |-> "", branches |-> <<>>]

Tree(bs) == [kind |-> "tree", topic |-> "T", branches |-> bs]

SubtopicSeqs(m) == [1..m -> {[id |-> i] : i \in Ids}]

BranchesOfWeight(w) == {[id |-> i, subtopics |-> s] : i \in Ids, s \in SubtopicSeqs(w - 1)}

RECURSIVE BranchSeqs(_)
BranchSeqs(n) ==
    IF n = 0 THEN {<<>>}
    ELSE UNION {{<<b>> \o rest : b \in BranchesOfWeight(w), rest \in BranchSeqs(n - w)} : w \in 1..n}

Trees == {Tree(bs) : bs \in UNION {BranchSeqs(n) : n \in 0..MaxNodes}}

\* Largest number of branches of a tree without subtopics.
MaxBranches == 8

\* Trees of 1 to MaxBranches branches without subtopics, with ids b1, b2, ...
RingTrees ==
    {Tree([i \in 1..n |-> [id |-> <<"b", ToString(i)>>, subtopics |-> <<>>]]) : n \in 1..MaxBranches}

\* Trees a mounted component is re-rendered with.
RerenderTrees ==
    { Tree(<<>>),
      Tree(<<[id |-> <<"b">>, subtopics |-> <<[id |-> <<"a", "-", "b">>]>>]>>),
      Tree(<<[id |-> <<"main">>, subtopics |-> <<>>], [id |-> <<"b">>, subtopics |-> <<>>]>>) }

\* JavaScript truthiness of `data` and of `data.branches`.
Truthy(data) == data.kind # "null"
HasBranches(data) == data.kind = "tree"

----------------------------------------------------------------------------
(* Numbers *)

TwoPi == 6283185
HalfPi == 1570796
Scale == 10000

Num(v) == [k |-> "num", v |-> v]
Infinity == [k |-> "inf", v |-> 0]
Raised == [k |-> "error", v |-> 0]

\* JavaScript `a / b` on numbers: a zero divisor gives Infinity, never an exception.
JsDivRaising(a, b) == IF b = 0 THEN Raised ELSE Num(a \div b)
JsDiv(a, b) == IF b = 0 THEN Infinity ELSE Num(a \div b)

Round(n, d) == (2 * n + d) \div (2 * d)

\* cos on [0, pi/2], argument in micro-radians, result scaled by Scale.
CosQ(x) ==
    LET t  == x \div 100
        x2 == (t * t) \div Scale
        t1 == Scale
        t2 == (t1 * x2) \div (2 * Scale)
        t3 == (t2 * x2) \div (12 * Scale)
        t4 == (t3 * x2) \div (30 * Scale)
        t5 == (t4 * x2) \div (56 * Scale)
        t6 == (t5 * x2) \div (90 * Scale)
    IN  t1 - t2 + t3 - t4 + t5 - t6

Cos(a) ==
    LET n  == a % TwoPi
        pi == TwoPi \div 2
    IN  IF n <= HalfPi THEN CosQ(n)
        ELSE IF n <= pi THEN 0 - CosQ(pi - n)
        ELSE IF n <= pi + HalfPi THEN 0 - CosQ(n - pi)
        ELSE CosQ(TwoPi - n)

Sin(a) == Cos(a - HalfPi)

----------------------------------------------------------------------------
(* LearningMapFlow: the layout *)

Variants == {"part_000", "LearningMapFlow.tsx"}

\* The constants in which the two copies of the component differ.
LayoutParams(v) ==
    IF v = "part_000"
    THEN [radius |-> 280, cy |-> 220, delta |-> 350000, subtopicRadius |-> 200,
          rootStroke |-> "url(#gradient-primary)", rootBadge |-> "Start"]
    ELSE [radius |-> 250, cy |-> 200, delta |-> 300000, subtopicRadius |-> 180,
          rootStroke |-> "hsl(var(--primary))", rootBadge |-> "Start Here"]

RootX == 400
RootY == 50

Hyphen == <<"-">>

NoBadge == [label |-> "", n |-> 0]

MainNode(data, p) ==
    [id |-> MainId, type |-> "main", x |-> RootX, y |-> RootY,
     badge |-> [label |-> p.rootBadge, n |-> 0]]

AngleStepOneMore(branchCount) == JsDiv(TwoPi, branchCount + 1)

AngleStep(branchCount) == JsDiv(TwoPi, branchCount)

\* branchIndex is 0-based, as in forEach.
BranchAngle(angleStep, branchIndex) == angleStep.v * branchIndex - HalfPi

BranchX(angle, p) == RootX + Round(p.radius * Cos(angle), Scale)
BranchY(angle, p) == p.cy + Round(p.radius * Sin(angle), Scale)

SubtopicAngleOffCentre(angle, subtopicIndex, count, p) ==
    angle + ((2 * subtopicIndex - count) * p.delta) \div 2

SubtopicAngle(angle, subtopicIndex, count, p) ==
    angle + ((2 * subtopicIndex - (count - 1)) * p.delta) \div 2

BranchNode(branch, branchIndex, angle, p) ==
    [id |-> branch.id, type |-> "branch", x |-> BranchX(angle, p), y |-> BranchY(angle, p),
     badge |-> [label |-> "Branch", n |-> branchIndex + 1]]

BranchEdgeDangling(branch, p) ==
    [id |-> MainId \o Hyphen \o branch.id, source |-> MainId,
     target |-> MainId \o Hyphen \o branch.id,
     animated |-> TRUE, stroke |-> p.rootStroke]

BranchEdge(branch, p) ==
    [id |-> MainId \o Hyphen \o branch.id, source |-> MainId, target |-> branch.id,
     animated |-> TRUE, stroke |-> p.rootStroke]

SubtopicNode(branch, subtopic, subtopicIndex, angle, p) ==
    LET subtopicAngle == SubtopicAngle(angle, subtopicIndex, Len(branch.subtopics), p)
    IN  [id |-> subtopic.id, type |-> "subtopic",
         x |-> BranchX(angle, p) + Round(p.subtopicRadius * Cos(subtopicAngle), Scale),
         y |-> BranchY(angle, p) + Round(p.subtopicRadius * Sin(subtopicAngle), Scale),
         badge |-> NoBadge]

SubtopicEdgeRootStyled(branch, subtopic) ==
    [id |-> branch.id \o Hyphen \o subtopic.id, source |-> branch.id, target |-> subtopic.id,
     animated |-> TRUE, stroke |-> "hsl(var(--primary))"]

SubtopicEdgeReversedId(branch, subtopic) ==
    [id |-> subtopic.id \o Hyphen \o branch.id, source |-> branch.id, target |-> subtopic.id,
     animated |-> FALSE, stroke |-> "hsl(var(--accent))"]

SubtopicEdge(branch, subtopic) ==
    [id |-> branch.id \o Hyphen \o subtopic.id, source |-> branch.id, target |-> subtopic.id,
     animated |-> FALSE, stroke |-> "hsl(var(--accent))"]

BranchPushesNodesDropLast(branch, branchIndex, angleStep, p) ==
    LET angle == BranchAngle(angleStep, branchIndex)
    IN  <<BranchNode(branch, branchIndex, angle, p)>> \o
        [j \in 1..(Len(branch.subtopics) - 1) |->
            SubtopicNode(branch, branch.subtopics[j], j - 1, angle, p)]

\* One pass of the outer forEach: the pushes onto newNodes for one branch.
BranchPushesNodes(branch, branchIndex, angleStep, p) ==
    LET angle == BranchAngle(angleStep, branchIndex)
    IN  <<BranchNode(branch, branchIndex, angle, p)>> \o
        [j \in 1..Len(branch.subtopics) |->
            SubtopicNode(branch, branch.subtopics[j], j - 1, angle, p)]

\* One pass of the outer forEach: the pushes onto newEdges for one branch.
BranchPushesEdges(branch, p) ==
    <<BranchEdge(branch, p)>> \o
    [j \in 1..Len(branch.subtopics) |-> SubtopicEdge(branch, branch.subtopics[j])]

RECURSIVE ForEachNodes(_, _, _, _)
ForEachNodes(branches, i, angleStep, p) ==
    IF i > Len(branches) THEN <<>>
    ELSE BranchPushesNodes(branches[i], i - 1, angleStep, p) \o
         ForEachNodes(branches, i + 1, angleStep, p)

RECURSIVE ForEachEdges(_, _, _)
ForEachEdges(branches, i, p) ==
    IF i > Len(branches) THEN <<>>
    ELSE BranchPushesEdges(branches[i], p) \o ForEachEdges(branches, i + 1, p)

\* newNodes and newEdges as the effect has built them when it calls setNodes / setEdges.
NewNodes(data, v) ==
    LET p == LayoutParams(v)
    IN  <<MainNode(data, p)>> \o
        ForEachNodes(data.branches, 1, AngleStep(Len(data.branches)), p)

NewEdges(data, v) == ForEachEdges(data.branches, 1, LayoutParams(v))

\* The effect throws when a step of it raises.
EffectThrows(data) == AngleStep(Len(data.branches)).k = "error"

\* setNodes(newNodes): the state is replaced by the array just built.
SetNodesAppending(old, new) == old \o new
SetNodes(old, new) == new

SetEdges(old, new) == new

\* The guard at the top of the effect.
EffectSkips(data) == ~Truthy(data) \/ ~HasBranches(data)

----------------------------------------------------------------------------
(* The record of the last step *)

\* No function request was served in the step.
NotServed ==
    [method |-> "none", topicState |-> "none", keyed |-> FALSE, replyClass |-> "none",
     parsed |-> FALSE, status |-> 0, kind |-> "none", error |-> "", gatewayCalls |-> 0]

\* invoke did not return in the step.
NoResult == [returned |-> FALSE, error |-> FALSE, kind |-> "null", overtaken |-> FALSE]

StepRecord(op, t, calls, served, result) ==
    [op |-> op, topic |-> t, calls |-> calls, served |-> served, result |-> result]

Did(op) == StepRecord(op, <<>>, 0, NotServed, NoResult)

----------------------------------------------------------------------------
(* LearningMapFlow: the component *)

DragTarget == [x |-> 0, y |-> 0]

OverwriteKind ==
    IF nodes = <<>> THEN "empty" ELSE IF drags > 0 THEN "dragged" ELSE "layout"

\* useEffect(..., [data, setNodes, setEdges]) for the current data.
LayoutEffect ==
    /\ effectPending
    /\ ~flowFailed
    /\ effectPending' = FALSE
    /\ IF EffectSkips(learningMap)
       THEN UNCHANGED <<nodes, edges, drags, overwrote, flowFailed>>
       ELSE IF EffectThrows(learningMap)
       THEN /\ flowFailed' = TRUE
            /\ UNCHANGED <<nodes, edges, drags, overwrote>>
       ELSE /\ nodes' = SetNodes(nodes, NewNodes(learningMap, variant))
            /\ edges' = SetEdges(edges, NewEdges(learningMap, variant))
            /\ drags' = 0
            /\ overwrote' = OverwriteKind
            /\ UNCHANGED flowFailed
    /\ step' = Did("LayoutEffect")
    /\ UNCHANGED <<variant, learningMap, pageVars, apiKey>>

\* The parent renders the mounted component with a new data object.
FlowRender(t) ==
    /\ ~effectPending
    /\ ~flowFailed
    /\ learningMap' = t
    /\ effectPending' = TRUE
    /\ step' = Did("FlowRender")
    /\ UNCHANGED <<variant, nodes, edges, drags, overwrote, flowFailed, pageVars, apiKey>>

\* onNodesChange: the user drags node i.
NodeDrag(i) ==
    /\ ~effectPending
    /\ ~flowFailed
    /\ drags < MaxDrags
    /\ i \in 1..Len(nodes)
    /\ nodes' = [nodes EXCEPT ![i].x = DragTarget.x, ![i].y = DragTarget.y]
    /\ drags' = drags + 1
    /\ step' = Did("NodeDrag")
    /\ UNCHANGED <<variant, learningMap, edges, effectPending, overwrote, flowFailed,
                   pageVars, apiKey>>

----------------------------------------------------------------------------
(* Strings *)

\* A topic is a sequence of tokens; " " is white space.
Space == " "

RECURSIVE TrimStart(_)
TrimStart(s) == IF s # <<>> /\ Head(s) = Space THEN TrimStart(Tail(s)) ELSE s

RECURSIVE TrimEnd(_)
TrimEnd(s) == IF s # <<>> /\ s[Len(s)] = Space THEN TrimEnd(SubSeq(s, 1, Len(s) - 1)) ELSE s

\* String.prototype.trim
Trim(s) == TrimEnd(TrimStart(s))

\* What the user types into the input.
TypedTopics == { <<>>, <<" ", " ">>, <<"x">> }

HeaderExample == <<"Machine Learning">>
WelcomeExample == <<"Web3 & Blockchain">>

----------------------------------------------------------------------------
(* generate-learning-map: the request handler *)

\* Values JSON.parse can return for the generated content.
NoBranchesObject == [kind |-> "noBranches", topic |-> "T", branches |-> <<>>]
NullBranchesObject == [kind |-> "nullBranches", topic |-> "T", branches |-> <<>>]

Payloads == RerenderTrees \cup {NoBranchesObject, NullBranchesObject}

\* The generated text, as tokens: a code fence, the word json, white space, prose
\* without braces or fences, the text of a JSON object, the JSON literal null.
Tok(k) == [tok |-> k, value |-> Null]
Fence == Tok("fence")
JsonTag == Tok("json")
Ws == Tok("ws")
Prose == Tok("prose")
NullLit == Tok("null")
Obj(p) == [tok |-> "object", value |-> p]

SomeTree == Tree(<<[id |-> <<"b">>, subtopics |-> <<[id |-> <<"a", "-", "b">>]>>]>>)

Contents ==
    {<<Obj(p)>> : p \in Payloads} \cup
    {<<Fence, JsonTag, Ws, Obj(p), Ws, Fence>> : p \in Payloads} \cup
    { <<Fence, Obj(SomeTree), Fence>>,
      <<Prose, Fence, JsonTag, Ws, Obj(SomeTree), Ws, Fence, Prose>>,
      <<Prose, Obj(SomeTree)>>,
      <<Fence, JsonTag, Ws, Obj(SomeTree), Prose, Obj(SomeTree), Ws, Fence>>,
      <<Fence, Prose, Ws, Obj(SomeTree), Ws, Fence>>,
      <<Fence, JsonTag, Ws, Obj(SomeTree), Ws, Fence, Prose, Fence, Ws, Obj(Tree(<<>>)), Fence>>,
      <<Ws, NullLit, Ws>>,
      <<Fence, JsonTag, Ws, NullLit, Ws, Fence>> }

RECURSIVE SkipWs(_, _)
SkipWs(c, i) == IF i <= Len(c) /\ c[i] = Ws THEN SkipWs(c, i + 1) ELSE i

\* Where the group (\{[\s\S]*\}) starts for a match that begins at token i, or 0.
GroupStart(c, i) ==
    IF i > Len(c) \/ c[i] # Fence THEN 0
    ELSE LET j == IF i + 1 <= Len(c) /\ c[i + 1] = JsonTag THEN i + 2 ELSE i + 1
             k == SkipWs(c, j)
         IN  IF k <= Len(c) /\ c[k].tok = "object" THEN k ELSE 0

\* The ends the group can have: an object's closing brace, then \s*, then a fence.
GroupEnds(c, k) ==
    {e \in k..Len(c) : /\ c[e].tok = "object"
                       /\ SkipWs(c, e + 1) <= Len(c)
                       /\ c[SkipWs(c, e + 1)] = Fence}

Max(S) == CHOOSE x \in S : \A y \in S : y <= x
Min(S) == CHOOSE x \in S : \A y \in S : x <= y

MatchStarts(c) == {i \in 1..Len(c) : GroupStart(c, i) # 0 /\ GroupEnds(c, GroupStart(c, i)) # {}}

\* generatedContent.match(/```(?:json)?\s*(\{[\s\S]*\})\s*```/): the leftmost
\* match, its group as long as it can be.
JsonMatch(c) ==
    IF MatchStarts(c) = {} THEN [found |-> FALSE, group |-> <<>>]
    ELSE LET k == GroupStart(c, Min(MatchStarts(c)))
         IN  [found |-> TRUE, group |-> SubSeq(c, k, Max(GroupEnds(c, k)))]

\* jsonContent: the group of the match if there is one, else the content as it is.
ExtractJson(c) == IF JsonMatch(c).found THEN JsonMatch(c).group ELSE c

RECURSIVE TrimWsStart(_)
TrimWsStart(c) == IF c # <<>> /\ Head(c) = Ws THEN TrimWsStart(Tail(c)) ELSE c

RECURSIVE TrimWsEnd(_)
TrimWsEnd(c) == IF c # <<>> /\ c[Len(c)] = Ws THEN TrimWsEnd(SubSeq(c, 1, Len(c) - 1)) ELSE c

\* JSON.parse: one JSON value, white space allowed around it.
JsonParse(c) ==
    LET t == TrimWsEnd(TrimWsStart(c))
    IN  IF Len(t) = 1 /\ t[1].tok \in {"object", "null"}
        THEN [ok |-> TRUE, value |-> t[1].value]
        ELSE [ok |-> FALSE, value |-> Null]

NoResponse == [status |-> 0, kind |-> "none", error |-> "", value |-> Null]
ErrorResponse(status, message) == [status |-> status, kind |-> "error", error |-> message, value |-> Null]
JsonResponse(value) == [status |-> 200, kind |-> "json", error |-> "", value |-> value]
PreflightResponse == [status |-> 200, kind |-> "empty", error |-> "", value |-> Null]

\* What a request can carry.
NoTopic == [t |-> "absent", s |-> <<>>]
StringTopic(s) == [t |-> "string", s |-> s]
NumberTopic == [t |-> "number", s |-> <<>>]

Body(shape, t) == [shape |-> shape, topic |-> t]

\* Bodies of requests that do not come from the page.
ExternalBodies ==
    { Body("invalid", NoTopic),
      Body("null", NoTopic),
      Body("object", NoTopic),
      Body("object", NumberTopic),
      Body("object", StringTopic(<<>>)),
      Body("object", StringTopic(<<" ", " ">>)),
      Body("object", StringTopic(<<"x">>)) }

\* `!topic || topic.trim().length === 0` for a topic that is absent or a string.
TopicMissing(t) == t.t = "absent" \/ t.s = <<>> \/ Len(Trim(t.s)) = 0

\* The catch block: error.message, or 'Internal server error'.
Caught == [status |-> 500, kind |-> "error", error |-> "error.message", value |-> Null]

\* The handler up to its call of fetch: the response it returns without calling
\* the gateway, or "fetch".
BeforeFetch(method, body, key) ==
    IF method = "OPTIONS" THEN [next |-> "return", response |-> PreflightResponse]
    ELSE IF body.shape # "object" THEN [next |-> "return", response |-> Caught]
    ELSE IF body.topic.t = "number" THEN [next |-> "return", response |-> Caught]
    ELSE IF TopicMissing(body.topic)
    THEN [next |-> "return", response |-> ErrorResponse(400, "Topic is required")]
    ELSE IF ~key
    THEN [next |-> "return", response |-> ErrorResponse(500, "AI service not configured")]
    ELSE [next |-> "fetch", response |-> NoResponse]

\* What the gateway can answer.
Reply(kind, status, body, content) == [kind |-> kind, status |-> status, body |-> body, content |-> content]

GatewayReplies ==
    { Reply("reject", 0, "none", <<>>),
      Reply("http", 429, "text", <<>>),
      Reply("http", 402, "text", <<>>),
      Reply("http", 503, "text", <<>>),
      Reply("http", 200, "notJson", <<>>),
      Reply("http", 200, "noContent", <<>>),
      Reply("http", 200, "emptyContent", <<>>),
      Reply("http", 200, "contentNotString", <<>>) } \cup
    {Reply("http", 200, "content", c) : c \in Contents}

ResponseOk(reply) == reply.status \in 200..299

\* The response for a gateway answer that is not ok.
NotOkResponseSwapped(reply) ==
    IF reply.status = 402
    THEN ErrorResponse(429, "Rate limit exceeded. Please try again in a moment.")
    ELSE IF reply.status = 429
    THEN ErrorResponse(402, "AI service credits exhausted. Please add credits to continue.")
    ELSE ErrorResponse(500, "Failed to generate learning map")
NotOkResponse(reply) ==
    IF reply.status = 429
    THEN ErrorResponse(429, "Rate limit exceeded. Please try again in a moment.")
    ELSE IF reply.status = 402
    THEN ErrorResponse(402, "AI service credits exhausted. Please add credits to continue.")
    ELSE ErrorResponse(500, "Failed to generate learning map")

\* The handler from the gateway's answer on.
AfterFetch(reply) ==
    IF reply.kind = "reject" THEN Caught
    ELSE IF ~ResponseOk(reply) THEN NotOkResponse(reply)
    ELSE IF reply.body = "notJson" THEN Caught
    ELSE IF reply.body \in {"noContent", "emptyContent"}
    THEN ErrorResponse(500, "No content generated")
    ELSE IF reply.body = "contentNotString" THEN Caught
    ELSE LET parsed == JsonParse(ExtractJson(reply.content))
         IN  IF parsed.ok THEN JsonResponse(parsed.value)
             ELSE ErrorResponse(500, "Failed to parse learning map structure")

\* How many more times the handler calls fetch after this answer.
FetchesAgain(reply) == 0

\* The whole handler: the response, and the calls of fetch it made.
Serve(method, body, key, reply) ==
    LET before == BeforeFetch(method, body, key)
    IN  IF before.next = "return"
        THEN [response |-> before.response, gatewayCalls |-> 0]
        ELSE [response |-> AfterFetch(reply), gatewayCalls |-> 1 + FetchesAgain(reply)]

\* The request and the gateway's answer as the error taxonomy sees them.
TopicState(body) ==
    IF body.shape # "object" THEN "unreadable"
    ELSE IF body.topic.t = "absent" THEN "absent"
    ELSE IF body.topic.t = "number" THEN "notString"
    ELSE IF \A i \in 1..Len(body.topic.s) : body.topic.s[i] = Space THEN "blank"
    ELSE "present"

ReplyClass(reply) ==
    IF reply.kind = "reject" THEN "reject"
    ELSE IF reply.status = 429 THEN "rateLimited"
    ELSE IF reply.status = 402 THEN "quota"
    ELSE IF reply.status # 200 THEN "otherStatus"
    ELSE reply.body

Served(method, body, key, reply) ==
    LET out == Serve(method, body, key, reply)
        called == out.gatewayCalls > 0
    IN  [method |-> method, topicState |-> TopicState(body), keyed |-> key,
         replyClass |-> IF called THEN ReplyClass(reply) ELSE "none",
         parsed |-> called /\ reply.body = "content" /\ JsonParse(ExtractJson(reply.content)).ok,
         status |-> out.response.status, kind |-> out.response.kind,
         error |-> out.response.error, gatewayCalls |-> out.gatewayCalls]

NoReply == Reply("none", 0, "none", <<>>)

\* The answers the gateway can give to a request: none when the handler does not call it.
RepliesTo(method, body, key) ==
    IF BeforeFetch(method, body, key).next = "fetch" THEN GatewayReplies ELSE {NoReply}

\* The answers a call of the page is followed through with: every answer without
\* content, every payload as bare JSON, content that does not parse, and JSON null.
\* The fenced forms of the content are served to the other clients.
PageReplies ==
    {r \in GatewayReplies :
        r.body = "content" =>
            (Len(r.content) = 1 \/ r.content \in {<<Prose, Obj(SomeTree)>>, <<Ws, NullLit, Ws>>})}

PageRepliesTo(body, key) ==
    IF BeforeFetch("POST", body, key).next = "fetch" THEN PageReplies ELSE {NoReply}

\* A client other than the page calls the function and gets its response. The
\* handler shares nothing with the page, so these calls are taken while the page
\* is at rest.
ExternalCall(method, body, reply) ==
    /\ timers = <<>>
    /\ requests = <<>>
    /\ step' = StepRecord("ExternalCall", <<>>, 0, Served(method, body, apiKey, reply), NoResult)
    /\ UNCHANGED <<learningMap, flowVars, pageVars, apiKey>>

----------------------------------------------------------------------------
(* Index: the page *)

\* Largest number of generation attempts under way: pending timers plus calls of
\* invoke that have not returned.
MaxPending == 2

IsBlankNoTrim(s) == s = <<>>
\* `!topic.trim()`
IsBlank(s) == Trim(s) = <<>>

\* `learningMap && (...)`: the rendering surface is unmounted.
Unmounted ==
    /\ nodes' = <<>>
    /\ edges' = <<>>
    /\ effectPending' = FALSE
    /\ drags' = 0
    /\ overwrote' = "none"
    /\ UNCHANGED <<variant, flowFailed>>

\* A call of invoke under way: the body it sent, and whether a call started after it
\* has already returned a map that was stored.
Call(t) == [shape |-> "object", topic |-> StringTopic(t), overtaken |-> FALSE]

\* handleGenerate as closed over topic t, up to its await.
HandleGenerate(op, t) ==
    IF IsBlank(t)
    THEN /\ toast' = "Topic required"
         /\ step' = StepRecord(op, t, 0, NotServed, NoResult)
         /\ UNCHANGED <<loading, learningMap, flowVars, requests>>
    ELSE /\ Len(timers') + Len(requests) < MaxPending
         /\ loading' = TRUE
         /\ learningMap' = Null
         /\ Unmounted
         /\ requests' = Append(requests, Call(t))
         /\ step' = StepRecord(op, t, 1, NotServed, NoResult)
         /\ UNCHANGED toast

\* Events reach the page once pending effects have run.
Idle == ~effectPending /\ ~flowFailed

\* <Input onChange>, disabled while loading.
TypeTopic(v) ==
    /\ Idle
    /\ ~loading
    /\ topic' = v
    /\ step' = Did("TypeTopic")
    /\ UNCHANGED <<learningMap, flowVars, apiKey, loading, toast, timers, requests>>

\* <Button onClick={handleGenerate}>, disabled while loading.
ClickGenerate ==
    /\ Idle
    /\ ~loading
    /\ UNCHANGED <<apiKey, topic, timers>>
    /\ HandleGenerate("ClickGenerate", topic)

\* handleKeyPress for Enter; the input is disabled while loading.
PressEnter ==
    /\ Idle
    /\ ~loading
    /\ UNCHANGED <<apiKey, topic, timers>>
    /\ HandleGenerate("PressEnter", topic)

Timer(delay, t) == [delay |-> delay, topic |-> t]

\* An example button: setTopic(name), then setTimeout(() => handleGenerate(), delay)
\* with the handleGenerate of the render the click happened in.
ClickExample(op, name, delay) ==
    /\ Len(timers) + Len(requests) < MaxPending
    /\ topic' = name
    /\ timers' = Append(timers, Timer(delay, topic))
    /\ step' = Did(op)
    /\ UNCHANGED <<learningMap, flowVars, apiKey, loading, toast, requests>>

\* A header example button, disabled while loading.
ClickHeaderExample ==
    /\ Idle
    /\ ~loading
    /\ ClickExample("ClickHeaderExample", HeaderExample, 200)

\* A welcome-card example button; the card is rendered with `!learningMap && !loading`.
ClickWelcomeExample ==
    /\ Idle
    /\ ~Truthy(learningMap)
    /\ ~loading
    /\ ClickExample("ClickWelcomeExample", WelcomeExample, 100)

\* Timer k is due before every timer that was set earlier with a longer delay, and
\* after every timer that was set earlier with a delay no longer than its own.
MayFire(k) == \A j \in 1..(k - 1) : timers[j].delay > timers[k].delay

RemoveAt(s, k) == SubSeq(s, 1, k - 1) \o SubSeq(s, k + 1, Len(s))

\* A setTimeout callback runs.
TimerFires(k) ==
    /\ Idle
    /\ k \in 1..Len(timers)
    /\ MayFire(k)
    /\ timers' = RemoveAt(timers, k)
    /\ HandleGenerate("TimerFires", timers[k].topic)
    /\ UNCHANGED <<apiKey, topic>>

\* supabase.functions.invoke: { data, error } for a response.
InvokeResult(response) ==
    IF response.status \in 200..299
    THEN [error |-> FALSE, data |-> response.value]
    ELSE [error |-> TRUE, data |-> Null]

\* The checks of handleGenerate on what invoke returned.
Accepts(result) == ~result.error /\ Truthy(result.data) /\ HasBranches(result.data)

\* How many times handleGenerate calls invoke again after what invoke returned.
InvokesAgainOnFailure(result) == IF Accepts(result) THEN 0 ELSE 1
InvokesAgain(result) == 0

\* Call k has returned a map that is stored: the calls started before it are overtaken.
Overtake(rs, k) ==
    [j \in 1..Len(rs) |-> IF j < k THEN [rs[j] EXCEPT !.overtaken = TRUE] ELSE rs[j]]

\* handleGenerate from the await on, for request k and what invoke returned.
Settle(op, k, served, result) ==
    /\ step' = StepRecord(op, requests[k].topic.s, InvokesAgain(result), served,
                          [returned |-> TRUE, error |-> result.error, kind |-> result.data.kind,
                           overtaken |-> requests[k].overtaken])
    /\ loading' = FALSE
    /\ requests' = LET rest == RemoveAt(IF Accepts(result) THEN Overtake(requests, k)
                                        ELSE requests, k)
                   IN  IF InvokesAgain(result) > 0 THEN Append(rest, requests[k]) ELSE rest
    /\ IF Accepts(result)
       THEN /\ learningMap' = result.data
            /\ effectPending' = TRUE
            /\ toast' = "Learning map generated!"
            /\ UNCHANGED <<variant, nodes, edges, drags, overwrote, flowFailed>>
       ELSE /\ toast' = "Generation failed"
            /\ UNCHANGED <<learningMap, flowVars>>
    /\ UNCHANGED <<apiKey, topic, timers>>

\* The function serves request k and its response reaches the page.
InvokeReturns(k, reply) ==
    /\ Idle
    /\ Settle("InvokeReturns", k, Served("POST", requests[k], apiKey, reply),
              InvokeResult(Serve("POST", requests[k], apiKey, reply).response))

\* Request k does not reach the function: invoke returns a fetch error.
InvokeFails(k) ==
    /\ Idle
    /\ k \in 1..Len(requests)
    /\ Settle("InvokeFails", k, NotServed, [error |-> TRUE, data |-> Null])

----------------------------------------------------------------------------
(* Specifications *)

InitPage ==
    /\ topic = <<>>
    /\ loading = FALSE
    /\ toast = "none"
    /\ timers = <<>>
    /\ requests = <<>>
    /\ step = Did("none")

\* The page after its first render: no map, nothing in flight.
Init ==
    /\ variant = "LearningMapFlow.tsx"
    /\ learningMap = Null
    /\ nodes = <<>>
    /\ edges = <<>>
    /\ effectPending = FALSE
    /\ drags = 0
    /\ overwrote = "none"
    /\ flowFailed = FALSE
    /\ InitPage
    /\ apiKey \in BOOLEAN

Next ==
    \/ LayoutEffect
    \/ \E v \in TypedTopics : TypeTopic(v)
    \/ ClickGenerate
    \/ PressEnter
    \/ ClickHeaderExample
    \/ ClickWelcomeExample
    \/ \E k \in 1..Len(timers) : TimerFires(k)
    \/ \E k \in 1..Len(requests) : \E reply \in PageRepliesTo(requests[k], apiKey) :
          InvokeReturns(k, reply)
    \/ \E k \in 1..Len(requests) : InvokeFails(k)
    \/ \E m \in {"POST", "OPTIONS"}, b \in ExternalBodies :
          \E reply \in RepliesTo(m, b, apiKey) : ExternalCall(m, b, reply)

Spec == Init /\ [][Next]_vars

\* The component on its own: mounted with any tree, then re-rendered.
InitLayout ==
    /\ variant \in Variants
    /\ learningMap \in Trees \cup RingTrees
    /\ nodes = <<>>
    /\ edges = <<>>
    /\ effectPending = TRUE
    /\ drags = 0
    /\ overwrote = "none"
    /\ flowFailed = FALSE
    /\ InitPage
    /\ apiKey = TRUE

NextLayout ==
    \/ LayoutEffect
    \/ \E t \in RerenderTrees \cup {Null} : FlowRender(t)
    \/ \E i \in 1..(MaxNodes + 1) : NodeDrag(i)

SpecLayout == InitLayout /\ [][NextLayout]_vars

----------------------------------------------------------------------------
(* Properties *)

RECURSIVE SumSubtopics(_)
SumSubtopics(branches) ==
    IF branches = <<>> THEN 0
    ELSE Len(Head(branches).subtopics) + SumSubtopics(Tail(branches))

\* The layout effect has run for the tree that is the current data.
LaidOut == ~effectPending /\ ~flowFailed /\ HasBranches(learningMap) /\ overwrote # "none"

NodeIds == {nodes[i].id : i \in 1..Len(nodes)}

\* C1: for a tree with N >= 1 branches, branch i having M_i >= 0 subtopics, the layout
\* emits exactly 1 + N + sum(M_i) nodes and exactly N + sum(M_i) edges.
C1_Counts ==
    (LaidOut /\ Len(learningMap.branches) >= 1) =>
        /\ Len(nodes) = 1 + Len(learningMap.branches) + SumSubtopics(learningMap.branches)
        /\ Len(edges) = Len(learningMap.branches) + SumSubtopics(learningMap.branches)

\* A tree of two branches, one with subtopics and one without, has been laid out.
C1_Witness ==
    /\ LaidOut
    /\ Len(learningMap.branches) = 2
    /\ Len(learningMap.branches[1].subtopics) = 1
    /\ Len(learningMap.branches[2].subtopics) = 0
    /\ Len(nodes) = 4
    /\ Len(edges) = 3

\* C2: for a tree with no branches the layout completes without failing and emits
\* exactly one node, the root with id 'main', and no edge.
C2_ZeroBranches ==
    /\ ~flowFailed
    /\ (~effectPending /\ HasBranches(learningMap) /\ Len(learningMap.branches) = 0) =>
          /\ Len(nodes) = 1
          /\ nodes[1].id = MainId
          /\ nodes[1].type = "main"
          /\ edges = <<>>

\* The empty tree has been laid out over an earlier layout.
C2_Witness ==
    /\ LaidOut
    /\ learningMap.branches = <<>>
    /\ overwrote = "layout"
    /\ Len(nodes) = 1

\* C3: every edge's source and target are ids of nodes of the same node set.
C3_NoDanglingEdges ==
    \A i \in 1..Len(edges) : edges[i].source \in NodeIds /\ edges[i].target \in NodeIds

\* A layout with a root edge and a leaf edge is on display.
C3_Witness ==
    /\ LaidOut
    /\ \E i, j \in 1..Len(edges) : edges[i].source = MainId /\ edges[j].source # MainId

EdgesInto(id) == {i \in 1..Len(edges) : edges[i].target = id}

\* The branch whose pass of the loop pushed node k (a subtopic node).
RECURSIVE OwnerOf(_, _)
OwnerOf(k, i) == IF nodes[i].type = "branch" THEN nodes[i].id ELSE OwnerOf(k, i - 1)

\* C4: the edges form a tree rooted at 'main': no edge into the root, exactly one edge
\* into every branch node, from 'main', and exactly one edge into every subtopic node,
\* from the branch that contains it.
C4_EdgesFormTree ==
    LaidOut =>
        \A k \in 1..Len(nodes) :
            /\ nodes[k].type = "main" => EdgesInto(nodes[k].id) = {}
            /\ nodes[k].type = "branch" =>
                  /\ Cardinality(EdgesInto(nodes[k].id)) = 1
                  /\ \A i \in EdgesInto(nodes[k].id) : edges[i].source = MainId
            /\ nodes[k].type = "subtopic" =>
                  /\ Cardinality(EdgesInto(nodes[k].id)) = 1
                  /\ \A i \in EdgesInto(nodes[k].id) : edges[i].source = OwnerOf(k, k)

\* C5: the ids of the emitted nodes are pairwise distinct.
C5_NodeIdsDistinct ==
    \A i, j \in 1..Len(nodes) : i # j => nodes[i].id # nodes[j].id

\* C6: after the layout has run for tree T, and until the user moves a node, the node
\* and edge state is the layout of T alone, whatever was on display before; the edges
\* stay so after a move.
C6_StateIsLayoutOfData ==
    (~effectPending /\ ~flowFailed /\ HasBranches(learningMap)) =>
        /\ drags = 0 => nodes = NewNodes(learningMap, variant)
        /\ edges = NewEdges(learningMap, variant)

\* The layout has replaced a display whose nodes the user had moved.
C6_Witness ==
    /\ LaidOut
    /\ overwrote = "dragged"
    /\ drags = 0
    /\ Len(nodes) = 3

GenerateOps == {"ClickGenerate", "PressEnter", "TimerFires"}

AllSpaces(s) == \A i \in 1..Len(s) : s[i] = Space

\* C7: a generation attempt whose topic is empty or white space is rejected before
\* any call: handleGenerate shows 'Topic required' and changes neither loading nor
\* learningMap nor the calls in flight; the handler answers 400 without calling the
\* gateway.
C7_BlankTopicRejected ==
    [][ /\ (step'.op \in GenerateOps /\ AllSpaces(step'.topic)) =>
              /\ toast' = "Topic required"
              /\ UNCHANGED <<loading, learningMap, requests, nodes, edges>>
        /\ (step'.served.method = "POST" /\ step'.served.topicState = "blank") =>
              /\ step'.served.status = 400
              /\ step'.served.kind = "error"
              /\ step'.served.gatewayCalls = 0 ]_vars

\* A timer has run handleGenerate with a white-space topic while a call was in flight.
C7_Witness ==
    /\ step.op = "TimerFires"
    /\ step.topic = <<" ", " ">>
    /\ toast = "Topic required"
    /\ loading
    /\ Len(requests) = 1

\* C8: a response with no body, or whose branches are absent or null, is not stored,
\* is reported as a failed generation, and leaves no map on display.
C8_InvalidStructureLeavesNoMap ==
    [][ (/\ step'.result.returned
         /\ ~step'.result.error
         /\ step'.result.kind \in {"null", "noBranches", "nullBranches"}) =>
            /\ learningMap' = learningMap
            /\ toast' = "Generation failed"
            /\ ~Truthy(learningMap')
            /\ nodes' = <<>> ]_vars

Statuses == {200, 400, 402, 429, 500}

\* C9: a request other than OPTIONS ends in exactly one outcome: 400 for a missing or
\* blank topic, 500 without the credential, 429 and 402 passed on from the gateway,
\* 500 for every other failure, each error with a body {error: string}; and success
\* only for content that parsed as JSON.
C9_Outcomes ==
    LET v == step.served
    IN  v.method = "POST" =>
          /\ v.status \in Statuses
          /\ v.status # 200 => (v.kind = "error" /\ v.error # "")
          /\ v.status = 400 <=> v.topicState \in {"absent", "blank"}
          /\ v.topicState \in {"unreadable", "notString"} => v.status = 500
          /\ v.topicState = "present" =>
                /\ ~v.keyed => (v.status = 500 /\ v.gatewayCalls = 0)
                /\ v.keyed =>
                      /\ v.replyClass = "rateLimited" <=> v.status = 429
                      /\ v.replyClass = "quota" <=> v.status = 402
                      /\ v.replyClass \in {"reject", "otherStatus", "notJson", "noContent",
                                           "emptyContent", "contentNotString"} => v.status = 500
                      /\ (v.replyClass = "content" /\ ~v.parsed) => v.status = 500
                      /\ (v.replyClass = "content" /\ v.parsed) => v.status = 200
          /\ v.status = 200 => (v.kind = "json" /\ v.replyClass = "content" /\ v.parsed)

\* The handler has answered 500 for fenced content that is not JSON once stripped.
C9_Witness ==
    /\ step.served.method = "POST"
    /\ step.served.replyClass = "content"
    /\ ~step.served.parsed
    /\ step.served.status = 500
    /\ step.served.error = "Failed to parse learning map structure"

\* C10: nothing is retried: a request makes at most one call of the gateway, a call of
\* handleGenerate at most one call of invoke, a new call of invoke comes only from
\* handleGenerate run by a click, a key press or a timer, a timer only from a click, and
\* a call that has returned is gone and has issued no other.
C10_NoRetry ==
    [][ /\ step'.served.gatewayCalls <= 1
        /\ Len(requests') <= Len(requests) + 1
        /\ Len(requests') > Len(requests) => step'.op \in GenerateOps
        /\ Len(timers') > Len(timers) => step'.op \in {"ClickHeaderExample", "ClickWelcomeExample"}
        /\ step'.result.returned =>
              /\ Len(requests') = Len(requests) - 1
              /\ UNCHANGED timers ]_vars

\* A call has failed after one call of the gateway, and nothing is under way.
C10_Witness ==
    /\ step.result.returned
    /\ step.result.error
    /\ step.served.gatewayCalls = 1
    /\ step.served.status = 500
    /\ requests = <<>>
    /\ timers = <<>>
    /\ ~loading

\* C11: at most one call of the generation function is outstanding at any time.
C11_SingleOutstanding == Len(requests) <= 1

\* C12: a call that succeeds after a call started later has already succeeded does
\* not replace the map on display, which is the later call's.
C12_LaterRequestWins ==
    [][ (/\ step'.result.returned
         /\ step'.result.overtaken
         /\ ~step'.result.error
         /\ step'.result.kind = "tree"
         /\ Truthy(learningMap)) => learningMap' = learningMap ]_vars

\* The endpoints of the edges of a tree, in the order of the layout: per branch the
\* edge from the topic to the branch, then the edges from the branch to its subtopics.
RECURSIVE Endpoints(_)
Endpoints(branches) ==
    IF branches = <<>> THEN <<>>
    ELSE LET b == Head(branches)
         IN  <<[kind |-> "root-edge", source |-> MainId, target |-> b.id]>> \o
             [j \in 1..Len(b.subtopics) |->
                 [kind |-> "leaf-edge", source |-> b.id, target |-> b.subtopics[j].id]] \o
             Endpoints(Tail(branches))

\* What the renderer styles an edge by.
Category(e) == [animated |-> e.animated, stroke |-> e.stroke]

CategoriesOf(kind) ==
    {Category(edges[i]) : i \in {j \in 1..Len(edges) : Endpoints(learningMap.branches)[j].kind = kind}}

\* C13: every edge carries its source id, its target id and a style category; the
\* edges from the topic to a branch all have one category, the edges from a branch to
\* a subtopic all have another, and no category is shared by the two kinds.
C13_StyleCategories ==
    LaidOut =>
        LET ends == Endpoints(learningMap.branches)
        IN  /\ Len(edges) = Len(ends)
            /\ \A i \in 1..Len(edges) :
                  /\ {"source", "target", "animated", "stroke"} \subseteq DOMAIN edges[i]
                  /\ edges[i].source = ends[i].source
                  /\ edges[i].target = ends[i].target
            /\ Cardinality(CategoriesOf("root-edge")) <= 1
            /\ Cardinality(CategoriesOf("leaf-edge")) <= 1
            /\ CategoriesOf("root-edge") \cap CategoriesOf("leaf-edge") = {}

\* A layout with two edges from the topic and an edge from a branch is on display.
C13_Witness ==
    /\ LaidOut
    /\ Len(learningMap.branches) = 2
    /\ Len(learningMap.branches[2].subtopics) = 1
    /\ Cardinality(CategoriesOf("root-edge")) = 1
    /\ Cardinality(CategoriesOf("leaf-edge")) = 1

\* C14: the id of every edge is its source id, then '-', then its target id:
\* 'main-<branchId>' from the topic to a branch, '<branchId>-<subtopicId>' from a
\* branch to a subtopic; so every layout of a tree has the same edge ids.
C14_EdgeIdFromEndpoints ==
    /\ \A i \in 1..Len(edges) : edges[i].id = edges[i].source \o Hyphen \o edges[i].target
    /\ LaidOut =>
          LET ends == Endpoints(learningMap.branches)
          IN  /\ Len(edges) = Len(ends)
              /\ \A i \in 1..Len(edges) :
                    edges[i].id = ends[i].source \o Hyphen \o ends[i].target

\* A tree with a subtopic has been laid out again over an earlier layout.
C14_Witness ==
    /\ LaidOut
    /\ overwrote = "layout"
    /\ \E i \in 1..Len(edges) :
          /\ edges[i].source # MainId
          /\ edges[i].id = <<"b", "-", "a", "-", "b">>

\* The place of the node of branch i (1-based) in the node sequence of a layout.
RECURSIVE BranchNodeIndex(_, _)
BranchNodeIndex(branches, i) ==
    IF i = 1 THEN 2
    ELSE BranchNodeIndex(branches, i - 1) + 1 + Len(branches[i - 1].subtopics)

Abs(n) == IF n < 0 THEN 0 - n ELSE n

\* Seen from (cx, cy), node n lies in direction alpha: within a pixel of the ray.
InDirection(cx, cy, n, alpha) ==
    LET dx == n.x - cx
        dy == n.y - cy
    IN  /\ Abs(dx * Sin(alpha) - dy * Cos(alpha)) <= Scale
        /\ dx * Cos(alpha) + dy * Sin(alpha) > 0

\* The direction the claim gives branch i (1-based) of N: the first straight up, then
\* steps of 2 pi / N.
ClaimedAngle(i, N) == (i - 1) * (TwoPi \div N) - HalfPi

C17_EdgeIdsDistinct ==
    (LaidOut /\ \A i, j \in 1..Len(nodes) : i # j => nodes[i].id # nodes[j].id) =>
        \A i, j \in 1..Len(edges) : i # j => edges[i].id # edges[j].id

\* The example whose button sets a timer of this delay.
ExampleOf(timer) == IF timer.delay = 200 THEN HeaderExample ELSE WelcomeExample

\* C18: when the timer of an example button fires, a generation request is made whose
\* topic is the name of that example, whatever the input held before the click.
C18_ExampleTopicRequested ==
    [][ step'.op = "TimerFires" =>
            \E k \in 1..Len(timers) :
                /\ timers' = RemoveAt(timers, k)
                /\ step'.topic = ExampleOf(timers[k])
                /\ Len(requests') = Len(requests) + 1
                /\ requests'[Len(requests')].topic.s = ExampleOf(timers[k]) ]_vars

\* C19: loading is true whenever a call of the generation function has not returned,
\* and false once every call has returned.
C19_LoadingTracksRequests ==
    /\ requests # <<>> => loading
    /\ requests = <<>> => ~loading

====
